---- MODULE Spec2Model ----
(***************************************************************************)
(* stash_sqlite_to_pgsql: the batched migration of a SQLite catalogue into *)
(* PostgreSQL.  The repository holds two variants of func migrate:         *)
(*   WholeRun  src/main.go          one source and one destination         *)
(*                                  transaction around the whole run, all  *)
(*                                  repair rules;                          *)
(*   PerBatch  src/unnamed/part_000 one transaction per fetch and per      *)
(*                                  batch, only the clamp rule.            *)
(* Both are modelled by the same actions; the variable variant says which  *)
(* file is running.                                                        *)
(***************************************************************************)
EXTENDS Integers, Sequences, FiniteSets, TLC

VARIABLES
    variant,    \* which file's migrate is running
    source,     \* the SQLite store: table name -> rows in natural order
    pc,         \* position of migrate
    err,        \* the error migrate returned, "nil" while none
    ti,         \* index into Tables of the table being migrated
    offset,     \* local offset of the table loop
    rowsSlice,  \* local rowsSlice: the batch fetched and not yet inserted
    si,         \* index into SeqTables of the resync loop
    srcTxns,    \* transactions begun on the source and never finished
    dtxns,      \* destination transactions, in the order they were begun
    destSeq,    \* destination: next value of each table's id sequence
    stmts,      \* every statement issued to either store, in order
    diag,       \* the diagnostics logged by the repair rules
    now,        \* the wall clock
    start,      \* the wall clock when migrate was entered
    snap,       \* main.go: the snapshot of the source that stxn reads
    versions    \* the contents the source has had, oldest first

vars == <<variant, source, pc, err, ti, offset, rowsSlice, si, srcTxns, dtxns,
          destSeq, stmts, diag, now, start, snap, versions>>

WholeRun == "whole_run"
PerBatch == "per_batch"
Variants == {WholeRun, PerBatch}

----------------------------------------------------------------------------
(* Bounds of the model.                                                    *)

\* const batchSize = 1000, scaled down so that a table spans several pages
batchSize == 2
\* ids of the rows of the plain table are drawn from 1..MaxId
MaxId == 5
\* longest saved_filters table
MaxFilters == 3
\* writes of another process to the source during one run
MaxWrites == 1

----------------------------------------------------------------------------
(* The fixed lists of migrate.                                             *)

Tables == <<
    "blobs", "files", "files_fingerprints", "folders", "galleries",
    "galleries_chapters", "galleries_files", "galleries_images",
    "galleries_tags", "gallery_urls", "group_urls", "groups",
    "groups_relations", "groups_scenes", "groups_tags", "image_files",
    "image_urls", "images", "images_files", "images_tags",
    "performer_aliases", "performer_stash_ids", "performer_urls",
    "performers", "performers_galleries", "performers_images",
    "performers_scenes", "performers_tags", "saved_filters",
    "scene_markers", "scene_markers_tags", "scene_stash_ids", "scene_urls",
    "scenes", "scenes_files", "scenes_galleries", "scenes_o_dates",
    "scenes_tags", "scenes_view_dates", "studio_aliases",
    "studio_stash_ids", "studios", "studios_tags", "tag_aliases", "tags",
    "tags_relations", "video_captions", "video_files" >>

SeqTables == <<
    "files", "folders", "galleries_chapters",
    "groups", "images", "performers",
    "saved_filters", "scene_markers",
    "scenes", "studios", "tags" >>

TableSet == {Tables[i] : i \in 1..Len(Tables)}
SeqTableSet == {SeqTables[i] : i \in 1..Len(SeqTables)}

----------------------------------------------------------------------------
(* Column values: what MapScan puts into a map[string]interface{}.         *)

Nil == [type |-> "nil", v |-> 0]
Str(s) == [type |-> "string", v |-> s]
Int64(n) == [type |-> "int64", v |-> n]
Int32(n) == [type |-> "int32", v |-> n]
\* a time.Time: its calendar year and the nanoseconds into that year
Time(y, n) == [type |-> "time", v |-> [year |-> y, nsec |-> n]]

TimeBefore(a, b) ==
    \/ a.year < b.year
    \/ a.year = b.year /\ a.nsec < b.nsec

\* An int64 is held as two limbs, value = hi * 65536 + lo with lo in
\* 0..65535, because the checker's integers are 32 bits wide.
Wide(hi, lo) == [hi |-> hi, lo |-> lo]

WideLess(a, b) ==
    \/ a.hi < b.hi
    \/ a.hi = b.hi /\ a.lo < b.lo

\* math.MaxInt32 = 2147483647 = 32767 * 65536 + 65535
MaxInt32 == Wide(32767, 65535)
\* math.MinInt32 = -2147483648 = -32768 * 65536
MinInt32 == Wide(-32768, 0)

\* the conversion int32(value): the low 32 bits, as a signed number
int32(value) == Wide(((value.hi + 32768) % 65536) - 32768, value.lo)

\* the conversion alone, without the two comparisons
clampWraps(value) == int32(value)

clampInt64ToInt32(value) ==
    IF WideLess(MaxInt32, value) THEN MaxInt32
    ELSE IF WideLess(value, MinInt32) THEN MinInt32
    ELSE int32(value)

\* err != nil of json.Unmarshal([]byte(strVal), &tmp), on the texts the
\* model stores in the JSON columns
jsonUnmarshalFails(strVal) ==
    CASE strVal = "{}" -> FALSE
      [] strVal = "[1,2]" -> FALSE
      [] strVal = "{\"a\":" -> TRUE      \* unexpected end of JSON input
      [] strVal = "" -> TRUE             \* unexpected end of JSON input
      [] OTHER -> TRUE

\* time.Parse(time.RFC3339, v) on the texts the model stores in the
\* timestamp columns: the error flag and the time parsed
TimeTexts == {"2021-06-01T12:00:00Z", "0001-01-01T00:00:00Z",
              "0000-12-31T23:59:59Z", "2021-06-01 12:00:00", ""}
timeParseRFC3339(v) ==
    CASE v = "2021-06-01T12:00:00Z" -> [err |-> FALSE, t |-> [year |-> 2021, nsec |-> 3]]
      [] v = "0001-01-01T00:00:00Z" -> [err |-> FALSE, t |-> [year |-> 1, nsec |-> 0]]
      [] v = "0000-12-31T23:59:59Z" -> [err |-> FALSE, t |-> [year |-> 0, nsec |-> 9]]
      [] OTHER -> [err |-> TRUE, t |-> [year |-> 1, nsec |-> 0]]

isValidPostgresTimeYear0(t) == t.year >= 0

isValidPostgresTime(t) == t.year >= 1

----------------------------------------------------------------------------
(* The repair rules of the insert block.  Each returns the batch and the   *)
(* diagnostics it logged.                                                  *)

Diag(rule, table, id, col) == [rule |-> rule, table |-> table, id |-> id, col |-> col]

\* if table == "video_files": clamp interactive_speed where it is an int64
clampRule(rows) ==
    [i \in 1..Len(rows) |->
        IF rows[i].interactive_speed.type = "int64"
        THEN [rows[i] EXCEPT !.interactive_speed = Int32(clampInt64ToInt32(@.v))]
        ELSE rows[i]]

\* reflect.TypeOf(v).String() of a scanned value; for a NULL, TypeOf
\* returns the nil Type and the call panics
reflectTypeOf(val) ==
    CASE val.type = "string" -> "string"
      [] val.type = "int64" -> "int64"
      [] val.type = "int32" -> "int32"
      [] val.type = "time" -> "time.Time"
      [] OTHER -> "panic"

\* if table == "performer_custom_fields": rows[idx]["type"] = ...
typeTagRule(rows) ==
    [i \in 1..Len(rows) |->
        [k \in DOMAIN rows[i] \cup {"type"} |->
            IF k = "type" THEN Str(reflectTypeOf(rows[i].value)) ELSE rows[i][k]]]

\* the tables the rules of the insert block are keyed on
RuleTables == {"video_files", "performer_custom_fields", "saved_filters", "scene_markers"}

JsonCols == <<"find_filter", "object_filter", "ui_options">>

\* index in JsonCols of the first column of the row whose text fails to
\* parse (the inner loop breaks there), 0 if the row is valid
firstInvalidJson(row) ==
    LET bad == {c \in 1..Len(JsonCols) :
                   /\ row[JsonCols[c]].type = "string"
                   /\ jsonUnmarshalFails(row[JsonCols[c]].v)}
    IN IF bad = {} THEN 0 ELSE CHOOSE c \in bad : \A d \in bad : c <= d

\* if table == "saved_filters": validRows
jsonFilter(rows) == SelectSeq(rows, LAMBDA r : firstInvalidJson(r) = 0)

jsonDiags(rows) ==
    LET dropped == SelectSeq(rows, LAMBDA r : firstInvalidJson(r) # 0)
    IN [i \in 1..Len(dropped) |->
           Diag("json", "saved_filters", dropped[i].id,
                JsonCols[firstInvalidJson(dropped[i])])]

TsCols == <<"created_at", "updated_at">>

\* the switch on the value of one timestamp column; clock is time.Now().UTC()
tsReplaced(val) ==
    CASE val.type = "string" ->
            LET p == timeParseRFC3339(val.v)
            IN p.err \/ ~isValidPostgresTime(p.t)
      [] val.type = "time" -> ~isValidPostgresTime(val.v)
      [] OTHER -> TRUE

normalizeTs(val, clock) ==
    IF tsReplaced(val) THEN [type |-> "time", v |-> clock]
    ELSE IF val.type = "string"
         THEN [type |-> "time", v |-> timeParseRFC3339(val.v).t]
         ELSE val

\* if table == "scene_markers"
timestampRule(rows, clock) ==
    [i \in 1..Len(rows) |->
        [rows[i] EXCEPT !.created_at = normalizeTs(@, clock),
                        !.updated_at = normalizeTs(@, clock)]]

RECURSIVE timestampDiags(_)
timestampDiags(rows) ==
    IF rows = <<>> THEN <<>>
    ELSE LET r == Head(rows)
             d == [c \in 1..Len(TsCols) |-> Diag("time", "scene_markers", r.id, TsCols[c])]
         IN SelectSeq(d, LAMBDA x : tsReplaced(r[x.col])) \o timestampDiags(Tail(rows))

\* the rules of the insert block, in the order the file applies them
Repair(v, table, rows, clock) ==
    IF table = "video_files"
    THEN [rows |-> clampRule(rows), diags |-> <<>>]
    ELSE IF v = WholeRun /\ table = "performer_custom_fields"
    THEN [rows |-> typeTagRule(rows), diags |-> <<>>]
    ELSE IF v = WholeRun /\ table = "saved_filters"
    THEN [rows |-> jsonFilter(rows), diags |-> jsonDiags(rows)]
    ELSE IF v = WholeRun /\ table = "scene_markers"
    THEN [rows |-> timestampRule(rows, clock), diags |-> timestampDiags(rows)]
    ELSE [rows |-> rows, diags |-> <<>>]

----------------------------------------------------------------------------
(* The two stores.                                                         *)

\* open_sqlite: const writable = false, and the mode it puts in the URL
writable == FALSE
SourceMode == IF writable THEN "rwc" ELSE "ro"

Min(a, b) == IF a < b THEN a ELSE b

\* SELECT * FROM table LIMIT batchSize OFFSET off, skipping one row too many
FetchPageSkipsRow(rows, off) ==
    SubSeq(rows, off + 2, Min(off + 1 + batchSize, Len(rows)))

\* SELECT * FROM table LIMIT batchSize OFFSET off
FetchPage(rows, off) == SubSeq(rows, off + 1, Min(off + batchSize, Len(rows)))

\* offset++ in place of offset += batchSize
NextOffsetByOne(off) == off + 1

\* the loop without offset += batchSize
NextOffsetStuck(off) == off

NextOffset(off) == off + batchSize

RECURSIVE WritesTo(_, _)
WritesTo(writes, table) ==
    IF writes = <<>> THEN <<>>
    ELSE (IF Head(writes).table = table THEN Head(writes).rows ELSE <<>>)
         \o WritesTo(Tail(writes), table)

\* the rows of table that committed destination transactions hold
RECURSIVE CommittedIn(_, _)
CommittedIn(txns, table) ==
    IF txns = <<>> THEN <<>>
    ELSE (IF Head(txns).status = "committed"
          THEN WritesTo(Head(txns).writes, table) ELSE <<>>)
         \o CommittedIn(Tail(txns), table)

Committed(table) == CommittedIn(dtxns, table)

\* the rows of table that a statement of the newest transaction sees
VisibleIn(txns, table) ==
    CommittedIn(txns, table)
    \o (IF txns # <<>> /\ txns[Len(txns)].status = "open"
        THEN WritesTo(txns[Len(txns)].writes, table) ELSE <<>>)

Ids(rows) == {rows[i].id : i \in 1..Len(rows)}

MaxOf(S) == CHOOSE x \in S : \A y \in S : y <= x

\* COALESCE(max(id), 1): the reset forgets the + 1
restartSeqNoIncrement(rows) == IF rows = <<>> THEN 1 ELSE MaxOf(Ids(rows))

\* restart_seq: COALESCE(max(id) + 1, 1)
restartSeq(rows) == IF rows = <<>> THEN 1 ELSE MaxOf(Ids(rows)) + 1

\* a transaction kept across batches: the newest one is opened again
BeginTxnReuses(txns) ==
    IF txns = <<>> THEN <<[status |-> "open", writes |-> <<>>]>>
    ELSE [txns EXCEPT ![Len(txns)].status = "open"]

\* destDB.BeginTxx
BeginTxn(txns) == Append(txns, [status |-> "open", writes |-> <<>>])

WriteTxn(txns, table, rows) ==
    [txns EXCEPT ![Len(txns)].writes = Append(@, [table |-> table, rows |-> rows])]

\* a Commit that returns nil without committing
CommitTxnLost(txns) == txns

CommitTxn(txns) == [txns EXCEPT ![Len(txns)].status = "committed"]

Stmt(store, kind, table, off, rows, txn, ok) ==
    [store |-> store, kind |-> kind, table |-> table, offset |-> off,
     rows |-> rows, txn |-> txn, ok |-> ok]

\* INSERT ... DEFAULT VALUES, which goqu builds for a batch without rows:
\* the id comes from the table's sequence, the other columns are NULL
DefaultRow(id) ==
    [id |-> id, find_filter |-> Nil, object_filter |-> Nil, ui_options |-> Nil]

----------------------------------------------------------------------------
(* The source contents the model runs on.  A table of the source is read   *)
(* in rowid order, so its rows are kept in ascending id order.             *)

RECURSIVE AscSeq(_)
AscSeq(S) ==
    IF S = {} THEN <<>>
    ELSE LET m == CHOOSE x \in S : \A y \in S : x <= y
         IN <<m>> \o AscSeq(S \ {m})

PlainRows(S) == LET ids == AscSeq(S) IN [i \in 1..Len(ids) |-> [id |-> ids[i]]]

\* a valid row, a row invalid in its first column, a row invalid in its
\* last two columns, and a row whose columns are not all text
FilterShapes == {
    [find_filter |-> Str("{}"), object_filter |-> Str("[1,2]"), ui_options |-> Str("{}")],
    [find_filter |-> Str("{\"a\":"), object_filter |-> Str("{}"), ui_options |-> Str("{}")],
    [find_filter |-> Str("{}"), object_filter |-> Str(""), ui_options |-> Str("{\"a\":")],
    [find_filter |-> Nil, object_filter |-> Nil, ui_options |-> Str("[1,2]")] }

FilterRow(id, shape) ==
    [id |-> id, find_filter |-> shape.find_filter,
     object_filter |-> shape.object_filter, ui_options |-> shape.ui_options]

FilterTables ==
    UNION {{[i \in 1..n |-> FilterRow(i, f[i])] : f \in [1..n -> FilterShapes]}
           : n \in 0..MaxFilters}

TsValues ==
    {Str(t) : t \in TimeTexts}
    \cup {Time(2020, 5), Time(1, 0), Time(0, 7), Time(-1, 0), Nil}

MarkerTables ==
    {<<[id |-> 4, created_at |-> c, updated_at |-> u]>> :
        c \in TsValues, u \in {Time(2020, 5), Str("0000-12-31T23:59:59Z")}}

\* 0, -1, the two bounds of an int32, the values one beyond them, 2^40
\* and -2^40
SpeedValues ==
    {Int64(Wide(0, 0)), Int64(Wide(-1, 65535)), Int64(MaxInt32), Int64(Wide(32768, 0)),
     Int64(MinInt32), Int64(Wide(-32769, 65535)), Int64(Wide(16777216, 0)),
     Int64(Wide(-16777216, 0)), Nil}

VideoTables == {<<[id |-> 1, interactive_speed |-> s]>> : s \in SpeedValues}

\* a link table of one row; id stands for the pair of keys the row holds
LinkTables == {PlainRows({1})}

\* one table with a repair rule, or one link table, is populated beside a
\* plain table
Scenarios ==
    {[table |-> "saved_filters", rows |-> r] : r \in FilterTables}
    \cup {[table |-> "scene_markers", rows |-> r] : r \in MarkerTables}
    \cup {[table |-> "video_files", rows |-> r] : r \in VideoTables}
    \cup {[table |-> "galleries_tags", rows |-> r] : r \in LinkTables}

\* the custom fields of a performer: a table of the source that the list
\* of migrate does not name
CustomFields == <<[performer_id |-> 1, field |-> "eyes", value |-> Str("blue")]>>

SourceTableSet == TableSet \cup {"performer_custom_fields"}

\* the plain table: tags beside the link table galleries_tags, else files
PlainTable(sc) == IF sc.table = "galleries_tags" THEN "tags" ELSE "files"

\* the ids of files: any set when it is the only table with rows, and
\* three rows, which span two pages, beside a table with a repair rule
PlainIdSets(sc) == IF sc.rows = <<>> THEN SUBSET (1..MaxId) ELSE {{1, 2, 3}}

Init ==
    /\ variant \in Variants
    /\ \E sc \in Scenarios : \E F \in PlainIdSets(sc) :
          source = [t \in SourceTableSet |->
                       IF t = "performer_custom_fields" THEN CustomFields
                       ELSE IF t = sc.table THEN sc.rows
                       ELSE IF t = PlainTable(sc) THEN PlainRows(F)
                       ELSE <<>>]
    /\ pc = "open"
    /\ err = "nil"
    /\ ti = 1
    /\ offset = 0
    /\ rowsSlice = <<>>
    /\ si = 1
    /\ srcTxns = 0
    /\ dtxns = <<>>
    /\ destSeq = [t \in SeqTableSet |-> 1]
    /\ stmts = <<>>
    /\ diag = <<>>
    /\ now = [year |-> 2026, nsec |-> 0]
    /\ start = now
    /\ snap = [taken |-> FALSE, db |-> source]
    /\ versions = <<source>>

----------------------------------------------------------------------------
(* migrate.                                                                *)

\* a returned error that does not end the run
ErrorPcRetries(cur) == cur

\* return fmt.Errorf(...): migrate is left
ErrorPc(cur) == "failed"

\* the resync loop entered before the last table was fetched
AfterBreakEarly(v, i) ==
    IF i < Len(Tables) - 1 THEN "fetch"
    ELSE IF v = PerBatch THEN "close_source" ELSE "resync"

\* where an empty fetch of table i leads
AfterBreak(v, i) ==
    IF i < Len(Tables) THEN "fetch"
    ELSE IF v = PerBatch THEN "close_source" ELSE "resync"

AfterCloseSource(v) == IF v = PerBatch THEN "resync" ELSE "close_dest"

\* main.go commits after the first sequence reset
AfterResyncEarly(v, i) ==
    IF v = WholeRun THEN "commit"
    ELSE IF i < Len(SeqTables) THEN "resync" ELSE "close_dest"

AfterResync(v, i) ==
    IF i < Len(SeqTables) THEN "resync"
    ELSE IF v = PerBatch THEN "close_dest" ELSE "commit"

Tick == now' = [now EXCEPT !.nsec = @ + 1]

Fail(e) ==
    /\ err' = e
    /\ pc' = ErrorPc(pc)
    /\ Tick

\* a fetch that removes the rows it has read from the source
SrcStmtMoves(kind, table, off, rows, ok) ==
    Stmt("src", IF kind = "select" THEN "delete" ELSE kind, table, off, rows, 0, ok)

SrcStmt(kind, table, off, rows, ok) == Stmt("src", kind, table, off, rows, 0, ok)
DstStmt(kind, table, off, rows, txn, ok) == Stmt("dst", kind, table, off, rows, txn, ok)

\* What a SELECT of the source sees.  The source is opened with
\* _journal=WAL: a transaction reads the snapshot its first SELECT took,
\* whatever is written to the file meanwhile.  main.go reads every page in
\* stxn; part_000 reads every page in a transaction of its own, whose
\* snapshot is the file as it is then.
ReadView == IF variant = WholeRun /\ snap.taken THEN snap.db ELSE source

SnapAfterSelect ==
    IF variant = WholeRun THEN [taken |-> TRUE, db |-> ReadView] ELSE snap

\* open_sqlite, open_pgsql (which sets session_replication_role) and, in
\* main.go, the two BeginTxx
Open ==
    /\ pc = "open"
    /\ pc' = "fetch"
    /\ stmts' = stmts
          \o <<DstStmt("set", "", 0, <<>>, 0, TRUE)>>
          \o (IF variant = WholeRun
              THEN <<SrcStmt("begin", "", 0, <<>>, TRUE),
                     DstStmt("begin", "", 0, <<>>, 1, TRUE)>>
              ELSE <<>>)
    /\ srcTxns' = IF variant = WholeRun THEN 1 ELSE 0
    /\ dtxns' = IF variant = WholeRun THEN BeginTxn(dtxns) ELSE dtxns
    /\ Tick
    /\ UNCHANGED <<variant, source, versions, snap, err, ti, offset, rowsSlice, si, destSeq, diag, start>>

OpenErrors(v) ==
    {"open source", "open dest"} \cup (IF v = WholeRun THEN {"source begin tx", "dest begin tx"} ELSE {})

OpenFail ==
    /\ pc = "open"
    /\ err = "nil"
    /\ \E e \in OpenErrors(variant) :
          /\ Fail(e)
          /\ stmts' = stmts
                \o (IF e = "open source" THEN <<>>
                    ELSE <<DstStmt("set", "", 0, <<>>, 0, e # "open dest")>>)
                \o (IF e = "source begin tx"
                    THEN <<SrcStmt("begin", "", 0, <<>>, FALSE)>>
                    ELSE IF e = "dest begin tx"
                    THEN <<SrcStmt("begin", "", 0, <<>>, TRUE),
                           DstStmt("begin", "", 0, <<>>, 0, FALSE)>>
                    ELSE <<>>)
          /\ srcTxns' = IF e = "dest begin tx" THEN 1 ELSE 0
    /\ UNCHANGED <<variant, source, versions, snap, ti, offset, rowsSlice, si, dtxns, destSeq, diag, start>>

\* the Fetch block of the table loop, and the break on an empty batch
Fetch ==
    /\ pc = "fetch"
    /\ LET table == Tables[ti]
           rows == FetchPage(ReadView[table], offset)
       IN /\ stmts' = stmts
                \o (IF variant = PerBatch
                    THEN <<SrcStmt("begin", table, offset, <<>>, TRUE)>> ELSE <<>>)
                \o <<SrcStmt("select", table, offset, rows, TRUE)>>
          /\ srcTxns' = IF variant = PerBatch THEN srcTxns + 1 ELSE srcTxns
          /\ snap' = SnapAfterSelect
          /\ IF rows = <<>>
             THEN /\ pc' = AfterBreak(variant, ti)
                  /\ ti' = IF ti < Len(Tables) THEN ti + 1 ELSE ti
                  /\ offset' = 0
                  /\ rowsSlice' = <<>>
             ELSE /\ pc' = "insert"
                  /\ rowsSlice' = rows
                  /\ UNCHANGED <<ti, offset>>
    /\ Tick
    /\ UNCHANGED <<variant, source, versions, err, si, dtxns, destSeq, diag, start>>

FetchErrors(v) ==
    {"source failed tosql", "query", "failed structscan"}
    \cup (IF v = PerBatch THEN {"source begin tx"} ELSE {})

FetchFail ==
    /\ pc = "fetch"
    /\ err = "nil"
    /\ LET table == Tables[ti]
           rows == FetchPage(ReadView[table], offset)
       IN \E e \in FetchErrors(variant) :
             \* MapScan fails on a row: there is one
             /\ e = "failed structscan" => rows # <<>>
             /\ Fail(e)
             /\ stmts' = stmts
                   \o (IF variant = PerBatch
                       THEN <<SrcStmt("begin", table, offset, <<>>, e # "source begin tx")>>
                       ELSE <<>>)
                   \o (IF e = "query"
                       THEN <<SrcStmt("select", table, offset, <<>>, FALSE)>>
                       ELSE IF e = "failed structscan"
                       THEN <<SrcStmt("select", table, offset, rows, TRUE)>>
                       ELSE <<>>)
             /\ srcTxns' = IF variant = PerBatch /\ e # "source begin tx"
                           THEN srcTxns + 1 ELSE srcTxns
             /\ snap' = IF e = "failed structscan" THEN SnapAfterSelect ELSE snap
    /\ UNCHANGED <<variant, source, versions, ti, offset, rowsSlice, si, dtxns, destSeq, diag, start>>

\* the Insert block of the table loop and offset += batchSize
Insert ==
    /\ pc = "insert"
    /\ LET table == Tables[ti]
           rep == Repair(variant, table, rowsSlice, now)
           txns1 == IF variant = PerBatch THEN BeginTxn(dtxns) ELSE dtxns
           written == IF rep.rows = <<>> THEN <<DefaultRow(destSeq[table])>>
                      ELSE rep.rows
           txns2 == WriteTxn(txns1, table, written)
       IN \* the statement succeeds only if it violates no primary key
          /\ Ids(written) \cap Ids(VisibleIn(txns1, table)) = {}
          /\ dtxns' = IF variant = PerBatch THEN CommitTxn(txns2) ELSE txns2
          /\ destSeq' = IF rep.rows = <<>> THEN [destSeq EXCEPT ![table] = @ + 1]
                        ELSE destSeq
          /\ stmts' = stmts
                \o (IF variant = PerBatch
                    THEN <<DstStmt("begin", table, offset, <<>>, Len(txns1), TRUE)>>
                    ELSE <<>>)
                \o <<DstStmt("insert", table, offset, rep.rows, Len(txns1), TRUE)>>
                \o (IF variant = PerBatch
                    THEN <<DstStmt("commit", table, offset, <<>>, Len(txns1), TRUE)>>
                    ELSE <<>>)
          /\ diag' = diag \o rep.diags
    /\ offset' = NextOffset(offset)
    /\ rowsSlice' = <<>>
    /\ pc' = "fetch"
    /\ Tick
    /\ UNCHANGED <<variant, source, versions, snap, err, ti, si, srcTxns, start>>

InsertErrors(v) ==
    {"failed tosql", "exec"}
    \cup (IF v = PerBatch THEN {"dest begin tx", "commit"} ELSE {})

InsertFail ==
    /\ pc = "insert"
    /\ err = "nil"
    /\ LET table == Tables[ti]
           rep == Repair(variant, table, rowsSlice, now)
           txns1 == IF variant = PerBatch THEN BeginTxn(dtxns) ELSE dtxns
           written == IF rep.rows = <<>> THEN <<DefaultRow(destSeq[table])>>
                      ELSE rep.rows
       IN \E e \in InsertErrors(variant) :
             /\ e = "commit" => Ids(written) \cap Ids(VisibleIn(txns1, table)) = {}
             /\ Fail(e)
             /\ dtxns' = IF e = "dest begin tx" THEN dtxns
                         ELSE IF e = "commit" THEN WriteTxn(txns1, table, written)
                         ELSE txns1
             /\ destSeq' = IF e = "commit" /\ rep.rows = <<>>
                           THEN [destSeq EXCEPT ![table] = @ + 1] ELSE destSeq
             /\ stmts' = stmts
                   \o (IF variant = PerBatch
                       THEN <<DstStmt("begin", table, offset, <<>>,
                                      IF e = "dest begin tx" THEN 0 ELSE Len(txns1),
                                      e # "dest begin tx")>>
                       ELSE <<>>)
                   \o (IF e \in {"exec", "commit"}
                       THEN <<DstStmt("insert", table, offset, rep.rows, Len(txns1),
                                      e # "exec")>>
                       ELSE <<>>)
                   \o (IF e = "commit"
                       THEN <<DstStmt("commit", table, offset, <<>>, Len(txns1), FALSE)>>
                       ELSE <<>>)
             \* the rules have logged before the statement is built
             /\ diag' = IF e = "dest begin tx" THEN diag ELSE diag \o rep.diags
    /\ UNCHANGED <<variant, source, versions, snap, ti, offset, rowsSlice, si, srcTxns, start>>

\* one turn of the "Setting sequences" loop.  setval acts on the sequence
\* at once: PostgreSQL never rolls a sequence back.
Resync ==
    /\ pc = "resync"
    /\ LET table == SeqTables[si]
           txns1 == IF variant = PerBatch THEN BeginTxn(dtxns) ELSE dtxns
       IN /\ destSeq' = [destSeq EXCEPT ![table] = restartSeq(VisibleIn(txns1, table))]
          /\ dtxns' = IF variant = PerBatch THEN CommitTxn(txns1) ELSE txns1
          /\ stmts' = stmts
                \o (IF variant = PerBatch
                    THEN <<DstStmt("begin", table, 0, <<>>, Len(txns1), TRUE)>>
                    ELSE <<>>)
                \o <<DstStmt("setval", table, 0, <<>>, Len(txns1), TRUE)>>
                \o (IF variant = PerBatch
                    THEN <<DstStmt("commit", table, 0, <<>>, Len(txns1), TRUE)>>
                    ELSE <<>>)
    /\ pc' = AfterResync(variant, si)
    /\ si' = IF si < Len(SeqTables) THEN si + 1 ELSE si
    /\ Tick
    /\ UNCHANGED <<variant, source, versions, snap, err, ti, offset, rowsSlice, srcTxns, diag, start>>

ResyncErrors(v) ==
    {"seq exec"} \cup (IF v = PerBatch THEN {"seq dest begin tx", "seq commit"} ELSE {})

ResyncFail ==
    /\ pc = "resync"
    /\ err = "nil"
    /\ LET table == SeqTables[si]
           txns1 == IF variant = PerBatch THEN BeginTxn(dtxns) ELSE dtxns
       IN \E e \in ResyncErrors(variant) :
             /\ Fail(e)
             /\ dtxns' = IF e = "seq dest begin tx" THEN dtxns ELSE txns1
             /\ destSeq' = IF e = "seq commit"
                           THEN [destSeq EXCEPT ![table] = restartSeq(VisibleIn(txns1, table))]
                           ELSE destSeq
             /\ stmts' = stmts
                   \o (IF variant = PerBatch
                       THEN <<DstStmt("begin", table, 0, <<>>,
                                      IF e = "seq dest begin tx" THEN 0 ELSE Len(txns1),
                                      e # "seq dest begin tx")>>
                       ELSE <<>>)
                   \o (IF e \in {"seq exec", "seq commit"}
                       THEN <<DstStmt("setval", table, 0, <<>>, Len(txns1), e # "seq exec")>>
                       ELSE <<>>)
                   \o (IF e = "seq commit"
                       THEN <<DstStmt("commit", table, 0, <<>>, Len(txns1), FALSE)>>
                       ELSE <<>>)
    /\ UNCHANGED <<variant, source, versions, snap, ti, offset, rowsSlice, si, srcTxns, diag, start>>

\* main.go: dtxn.Commit() after the resync loop
CommitRun ==
    /\ pc = "commit"
    /\ dtxns' = CommitTxn(dtxns)
    /\ stmts' = Append(stmts, DstStmt("commit", "", 0, <<>>, Len(dtxns), TRUE))
    /\ pc' = "close_source"
    /\ Tick
    /\ UNCHANGED <<variant, source, versions, snap, err, ti, offset, rowsSlice, si, srcTxns, destSeq,
                   diag, start>>

CommitRunFail ==
    /\ pc = "commit"
    /\ err = "nil"
    /\ Fail("final commit")
    /\ stmts' = Append(stmts, DstStmt("commit", "", 0, <<>>, Len(dtxns), FALSE))
    /\ UNCHANGED <<variant, source, versions, snap, ti, offset, rowsSlice, si, srcTxns, dtxns, destSeq,
                   diag, start>>

\* sourceDB.Close(): the connections go, and the transactions left on them
CloseSource ==
    /\ pc = "close_source"
    /\ srcTxns' = 0
    /\ snap' = [snap EXCEPT !.taken = FALSE]
    /\ stmts' = Append(stmts, SrcStmt("close", "", 0, <<>>, TRUE))
    /\ pc' = AfterCloseSource(variant)
    /\ Tick
    /\ UNCHANGED <<variant, source, versions, err, ti, offset, rowsSlice, si, dtxns, destSeq,
                   diag, start>>

CloseSourceFail ==
    /\ pc = "close_source"
    /\ err = "nil"
    /\ Fail("source close")
    /\ stmts' = Append(stmts, SrcStmt("close", "", 0, <<>>, FALSE))
    /\ UNCHANGED <<variant, source, versions, snap, ti, offset, rowsSlice, si, srcTxns, dtxns, destSeq,
                   diag, start>>

\* destDB.Close() and return nil
CloseDest ==
    /\ pc = "close_dest"
    /\ stmts' = Append(stmts, DstStmt("close", "", 0, <<>>, 0, TRUE))
    /\ pc' = "done"
    /\ Tick
    /\ UNCHANGED <<variant, source, versions, snap, err, ti, offset, rowsSlice, si, srcTxns, dtxns,
                   destSeq, diag, start>>

CloseDestFail ==
    /\ pc = "close_dest"
    /\ err = "nil"
    /\ Fail("dest close")
    /\ stmts' = Append(stmts, DstStmt("close", "", 0, <<>>, 0, FALSE))
    /\ UNCHANGED <<variant, source, versions, snap, ti, offset, rowsSlice, si, srcTxns, dtxns, destSeq,
                   diag, start>>

Next ==
    \/ Open
    \/ OpenFail
    \/ Fetch
    \/ FetchFail
    \/ Insert
    \/ InsertFail
    \/ Resync
    \/ ResyncFail
    \/ CommitRun
    \/ CommitRunFail
    \/ CloseSource
    \/ CloseSourceFail
    \/ CloseDest
    \/ CloseDestFail

Spec == Init /\ [][Next]_vars

\* migrate is one sequential function and every call it makes to a store
\* returns: while a step is left to take, it is taken
FairSpec == Spec /\ WF_vars(Next)

----------------------------------------------------------------------------
(* The source with another process writing to it.  The other process       *)
(* deletes a row of files or inserts one, with an id of its choice, while  *)
(* migrate is paging through files; it writes at most MaxWrites times.     *)

\* the contents of a table after one row was deleted or inserted
OneRowWritten(rows) ==
    {PlainRows(Ids(rows) \ {i}) : i \in Ids(rows)}
    \cup {PlainRows(Ids(rows) \cup {i}) : i \in (1..MaxId) \ Ids(rows)}

ExternalWrite ==
    /\ Len(versions) <= MaxWrites
    /\ pc \in {"fetch", "insert"}
    /\ Tables[ti] = "files"
    /\ pc = "insert" \/ offset > 0
    /\ \E rows \in OneRowWritten(source["files"]) :
          source' = [source EXCEPT !["files"] = rows]
    /\ versions' = Append(versions, source')
    /\ UNCHANGED <<variant, pc, err, ti, offset, rowsSlice, si, srcTxns, dtxns,
                   destSeq, stmts, diag, now, start, snap>>

\* files is the only table that holds rows
InitW ==
    /\ Init
    /\ \A t \in TableSet \ {"files"} : source[t] = <<>>

NextW == Next \/ ExternalWrite

SpecW == InitW /\ [][NextW]_vars

----------------------------------------------------------------------------
(* What a run has done, read off the statements it issued.                 *)

\* the successful page fetches of table t, in order
Selects(t) ==
    SelectSeq(stmts, LAMBDA s : s.kind = "select" /\ s.table = t /\ s.ok)

\* the insert statements of table t that were executed, in order
Inserts(t) ==
    SelectSeq(stmts, LAMBDA s : s.kind = "insert" /\ s.table = t /\ s.ok)

RECURSIVE RowsOf(_)
RowsOf(ss) == IF ss = <<>> THEN <<>> ELSE Head(ss).rows \o RowsOf(Tail(ss))

IdSeq(rows) == [i \in 1..Len(rows) |-> rows[i].id]

\* the tables whose fetch loop has ended
PostLoop == {"close_source", "resync", "commit", "close_dest", "done"}
EarlierTables == {Tables[i] : i \in 1..(ti - 1)}
DoneTables ==
    EarlierTables \cup (IF pc \in PostLoop THEN {Tables[Len(Tables)]} ELSE {})

\* the table whose loop the last statement ended: an empty page
JustDone ==
    IF /\ stmts # <<>>
       /\ stmts[Len(stmts)].kind = "select"
       /\ stmts[Len(stmts)].ok
       /\ stmts[Len(stmts)].rows = <<>>
    THEN {stmts[Len(stmts)].table} ELSE {}

\* the tables that hold rows in the source
Populated == {t \in TableSet : source[t] # <<>>}

\* An action issues at most three statements (begin, insert, commit), so
\* the statements the last step added are among the last three.
Recent == {i \in DOMAIN stmts : i > Len(stmts) - 3}

JsonDropped(t) == SelectSeq(diag, LAMBDA d : d.rule = "json" /\ d.table = t)

DroppedIds(t) == {diag[i].id : i \in {i \in DOMAIN diag :
                      diag[i].rule = "json" /\ diag[i].table = t}}

\* every row written to table by the transactions txns, committed or not
RECURSIVE WrittenIn(_, _)
WrittenIn(txns, table) ==
    IF txns = <<>> THEN <<>>
    ELSE WritesTo(Head(txns).writes, table) \o WrittenIn(Tail(txns), table)

\* the rows of the page that the insert statement stmts[j] writes
FetchedFor(j) ==
    LET i == CHOOSE i \in 1..(j - 1) :
                 /\ stmts[i].kind = "select"
                 /\ stmts[i].table = stmts[j].table
                 /\ stmts[i].offset = stmts[j].offset
    IN stmts[i].rows

CeilDiv(n, p) == (n + p - 1) \div p

----------------------------------------------------------------------------
(* C1: after a run that returns nil, every table of the list holds in the  *)
(* destination as many rows as were read from the source, less the rows    *)
(* the JSON rule dropped.  main.go breaks it: a saved_filters batch whose  *)
(* rows were all dropped is still inserted, as INSERT ... DEFAULT VALUES.  *)
C1_RowsWrittenEqualRowsReadLessDropped ==
    pc = "done" =>
        \A t \in TableSet :
            Len(Committed(t)) = Len(RowsOf(Selects(t))) - Len(JsonDropped(t))

----------------------------------------------------------------------------
(* C2: for every table whose loop has ended, the successful fetches are    *)
(* ceil(N / batchSize) non-empty pages at offsets 0, batchSize, ... , each *)
(* of batchSize rows but possibly the last, then exactly one empty page,   *)
(* and the pages concatenated are the table.  It is stated of a table when *)
(* its loop ends and, for a table that holds rows, in every later state.   *)
C2_PaginationComplete ==
    \A t \in JustDone \cup (DoneTables \cap Populated) :
        LET sel == Selects(t)
            n == Len(source[t])
            k == CeilDiv(n, batchSize)
        IN /\ Len(sel) = k + 1
           /\ \A i \in 1..Len(sel) : sel[i].offset = (i - 1) * batchSize
           /\ \A i \in 1..k : sel[i].rows # <<>>
           /\ \A i \in 1..(k - 1) : Len(sel[i].rows) = batchSize
           /\ k > 0 => Len(sel[k].rows) = n - (k - 1) * batchSize
           /\ sel[k + 1].rows = <<>>
           /\ RowsOf(sel) = source[t]

\* a table of three pages, the last one short, has been read to its end
C2_Witness ==
    \E t \in DoneTables :
        /\ Len(source[t]) > 2 * batchSize
        /\ Len(source[t]) % batchSize # 0
        /\ Len(Selects(t)) = 4

----------------------------------------------------------------------------
\* a transaction per batch: it holds at most one insert, it is committed
\* when the next fetch is due, and the statement before an insert is the
\* BeginTxx of its transaction, issued for the same batch
BatchTransactions ==
    /\ \A k \in DOMAIN dtxns :
          /\ Len(dtxns[k].writes) <= 1
          /\ pc = "fetch" /\ dtxns[k].writes # <<>> => dtxns[k].status = "committed"
    /\ \A i \in Recent :
          stmts[i].kind = "insert" =>
              /\ i > 1
              /\ stmts[i - 1].kind = "begin"
              /\ stmts[i - 1].store = "dst"
              /\ stmts[i - 1].txn = stmts[i].txn
              /\ stmts[i - 1].table = stmts[i].table
              /\ stmts[i - 1].offset = stmts[i].offset

(* C3, as claimed: every batch is inserted in a destination transaction of *)
(* its own, begun for that batch, holding that one insert and committed    *)
(* before the next fetch is issued.  main.go runs every insert in the one  *)
(* transaction it begins before the first table.                           *)
C3_EveryBatchInItsOwnTransaction == BatchTransactions

(* C3, amended: part_000 writes every batch in a transaction of its own;   *)
(* main.go writes every batch in the single transaction begun before the   *)
(* first table, which is not committed before the resync loop has ended.   *)
C3_BatchTransactionPerVariant ==
    /\ variant = PerBatch => BatchTransactions
    /\ variant = WholeRun =>
          /\ Len(dtxns) <= 1
          /\ \A i \in Recent : stmts[i].kind = "insert" => stmts[i].txn = 1
          /\ \A k \in DOMAIN dtxns :
                dtxns[k].status = "committed" =>
                    /\ si = Len(SeqTables)
                    /\ pc \in {"close_source", "close_dest", "done", "failed"}

\* part_000 has committed two batches of one table, each in its transaction
C3_Witness ==
    /\ variant = PerBatch
    /\ pc = "fetch"
    /\ Len(dtxns) >= 2
    /\ dtxns[1].writes # <<>>
    /\ dtxns[2].writes # <<>>
    /\ dtxns[1].writes[1].table = dtxns[2].writes[1].table

----------------------------------------------------------------------------
\* the errors of the Fetch block and of the Insert block
LoopErrors == FetchErrors(variant) \cup InsertErrors(variant)

\* the rows of the inserts executed before the batch at offset of Tables[ti]
BatchesBefore(u) ==
    RowsOf(SelectSeq(stmts, LAMBDA s :
        /\ s.kind = "insert" /\ s.ok /\ s.table = u
        /\ (u \in EarlierTables \/ s.offset < offset)))

\* the rows of the source that lie in pages before that batch
SourceBefore(u) ==
    IF u \in EarlierTables THEN source[u]
    ELSE IF u = Tables[ti] THEN SubSeq(source[u], 1, Min(offset, Len(source[u])))
    ELSE <<>>

OnlyFailingBatchLost ==
    /\ \A u \in Populated :
          /\ Committed(u) = BatchesBefore(u)
          /\ IdSeq(Committed(u)) = IdSeq(SourceBefore(u))
    /\ \A k \in DOMAIN dtxns :
          dtxns[k].status = "committed" =>
              \A w \in DOMAIN dtxns[k].writes : dtxns[k].writes[w].table \in Populated

(* C4, as claimed: when migrate returns the error of a failed fetch or     *)
(* insert of the batch at offset of table Tables[ti], the destination's    *)
(* committed contents are the batches inserted before it: those of the     *)
(* earlier tables and those of the table at smaller offsets.  In main.go   *)
(* nothing is committed at that point.                                     *)
C4_FailureLosesOneBatch ==
    pc = "failed" /\ err \in LoopErrors => OnlyFailingBatchLost

(* C4, amended: in part_000 the committed contents are the batches before  *)
(* the failing one; in main.go no row is committed when migrate returns    *)
(* the error, so every batch inserted so far is lost with the failing one. *)
C4_FailureLossPerVariant ==
    pc = "failed" /\ err \in LoopErrors =>
        /\ variant = PerBatch => OnlyFailingBatchLost
        /\ variant = WholeRun =>
              \A k \in DOMAIN dtxns : dtxns[k].status # "committed"

\* part_000 fails on the second batch of a table, after an earlier table
C4_Witness ==
    /\ variant = PerBatch
    /\ pc = "failed"
    /\ err = "exec"
    /\ offset > 0
    /\ Tables[ti] # "files"
    /\ Committed("files") # <<>>
    /\ Committed(Tables[ti]) # <<>>

----------------------------------------------------------------------------
SamePage(a, b) == a.kind = b.kind /\ a.table = b.table /\ a.offset = b.offset

\* no page is fetched twice and no batch inserted twice
NothingTwice ==
    \A j \in Recent :
        stmts[j].kind \in {"select", "insert"} =>
            \A i \in 1..(j - 1) : ~SamePage(stmts[i], stmts[j])

FailedStatementIsLast == \A i \in DOMAIN stmts : ~stmts[i].ok => i = Len(stmts)

(* C5: an error of the fetch or of the write is fatal and never retried.   *)
(* Once migrate has returned an error it is left for good and no statement *)
(* reaches either store, no sequence moves and no transaction changes; a   *)
(* failed statement is the last one issued; no page of a table is fetched  *)
(* twice and no batch is inserted twice.                                   *)
C5_ErrorsAreFatal ==
    /\ [](err # "nil" => pc = "failed")
    /\ [](FailedStatementIsLast /\ NothingTwice)
    /\ [][err # "nil" => stmts' = stmts /\ dtxns' = dtxns /\ destSeq' = destSeq]_vars

\* the fetch of a later page has failed and migrate has returned the error
C5_Witness ==
    /\ pc = "failed"
    /\ err = "query"
    /\ offset > 0
    /\ ~stmts[Len(stmts)].ok

----------------------------------------------------------------------------
\* the tables fetched to their empty page before statement j
EndedTablesBefore(j) ==
    {stmts[i].table : i \in {i \in 1..(j - 1) :
        stmts[i].kind = "select" /\ stmts[i].ok /\ stmts[i].rows = <<>>}}

(* C6: a sequence is reset only after every table of the list has been     *)
(* fetched to its empty page, and no insert follows a reset.               *)
C6_ResyncAfterAllInserts ==
    \A j \in Recent :
        /\ stmts[j].kind = "setval" => EndedTablesBefore(j) = TableSet
        /\ stmts[j].kind = "insert" =>
              \A i \in 1..(j - 1) : stmts[i].kind # "setval"

\* a run that inserted batches has reset every sequence
C6_Witness ==
    /\ pc = "done"
    /\ Inserts("files") # <<>>
    /\ Len(SelectSeq(stmts, LAMBDA s : s.kind = "setval" /\ s.ok)) = Len(SeqTables)

----------------------------------------------------------------------------
(* C7: after a run that returns nil, the next id of every table of the     *)
(* resync list is 1 if the table holds no row, and otherwise is one more   *)
(* than an id of the table and greater than all of them.                   *)
C7_NextIdIsMaxPlusOne ==
    pc = "done" =>
        \A t \in SeqTableSet :
            LET ids == Ids(Committed(t))
            IN IF ids = {} THEN destSeq[t] = 1
               ELSE /\ destSeq[t] - 1 \in ids
                    /\ \A i \in ids : i < destSeq[t]

\* a table whose ids have gaps was migrated, beside tables left empty
C7_Witness ==
    /\ pc = "done"
    /\ \E t \in SeqTableSet :
          /\ Committed(t) # <<>>
          /\ destSeq[t] > Len(Committed(t)) + 1
    /\ \E t \in SeqTableSet : Committed(t) = <<>> /\ destSeq[t] = 1

----------------------------------------------------------------------------
(* C8: between batches and after the table loop, the rows written to a     *)
(* table of the destination, in statement order, are the rows read from    *)
(* the source table in the order read, less the rows the JSON rule         *)
(* dropped.  main.go breaks it with the row of INSERT ... DEFAULT VALUES,  *)
(* which was never read.                                                   *)
C8_RowOrderPreserved ==
    pc \in {"fetch"} \cup PostLoop =>
        \A t \in Populated :
            IdSeq(WrittenIn(dtxns, t))
                = SelectSeq(IdSeq(RowsOf(Selects(t))), LAMBDA id : id \notin DroppedIds(t))

----------------------------------------------------------------------------
JsonTextOk(val) == val.type = "string" => ~jsonUnmarshalFails(val.v)

JsonRowOk(r) ==
    JsonTextOk(r.find_filter) /\ JsonTextOk(r.object_filter) /\ JsonTextOk(r.ui_options)

(* C9: the batch of an insert into saved_filters is the batch fetched at   *)
(* that offset without the rows that hold, in find_filter, object_filter   *)
(* or ui_options, text that is not JSON; the other rows are unchanged and  *)
(* in order, and every dropped row has its diagnostic.  part_000 has no    *)
(* such rule and inserts the batch as fetched.                             *)
C9_JsonFilterDropsInvalidRows ==
    \A j \in Recent :
        stmts[j].kind = "insert" /\ stmts[j].table = "saved_filters" =>
            LET f == FetchedFor(j)
            IN /\ stmts[j].rows = SelectSeq(f, JsonRowOk)
               /\ \A i \in DOMAIN f :
                     ~JsonRowOk(f[i]) =>
                         \E d \in DOMAIN diag :
                             diag[d].rule = "json" /\ diag[d].id = f[i].id

----------------------------------------------------------------------------
TsOutOfRange(val) ==
    \/ val.type = "time" /\ val.v.year <= 0
    \/ val.type = "string" /\ timeParseRFC3339(val.v).err
    \/ val.type = "string" /\ timeParseRFC3339(val.v).t.year <= 0

TsInRange(val) ==
    \/ val.type = "time" /\ val.v.year >= 1
    \/ val.type = "string" /\ ~timeParseRFC3339(val.v).err
                           /\ timeParseRFC3339(val.v).t.year >= 1

TsInstant(val) == IF val.type = "string" THEN timeParseRFC3339(val.v).t ELSE val.v

HasTimeDiag(id, col) ==
    \E d \in DOMAIN diag :
        diag[d].rule = "time" /\ diag[d].id = id /\ diag[d].col = col

TsWrittenRight(in, out, id, col) ==
    /\ out.type = "time"
    /\ TsOutOfRange(in) =>
          /\ TimeBefore(start, out.v)
          /\ TimeBefore(out.v, now)
          /\ HasTimeDiag(id, col)
    /\ TsInRange(in) =>
          /\ out.v = TsInstant(in)
          /\ ~HasTimeDiag(id, col)

(* C10: in main.go, the batch of an insert into scene_markers has the rows *)
(* of the batch fetched, none dropped.  A created_at or updated_at that is *)
(* a time of year 0 or earlier, or text that does not parse or parses to   *)
(* such a year, is written as a time read from the clock after the run     *)
(* began, and has a diagnostic; a time or a text of year 1 or later is     *)
(* written as that same time, without a diagnostic.                        *)
C10_TimestampsNormalized ==
    variant = WholeRun =>
        \A j \in Recent :
            stmts[j].kind = "insert" /\ stmts[j].table = "scene_markers" =>
                LET f == FetchedFor(j)
                    w == stmts[j].rows
                IN /\ Len(w) = Len(f)
                   /\ \A i \in DOMAIN f :
                         /\ w[i].id = f[i].id
                         /\ TsWrittenRight(f[i].created_at, w[i].created_at,
                                           f[i].id, "created_at")
                         /\ TsWrittenRight(f[i].updated_at, w[i].updated_at,
                                           f[i].id, "updated_at")

\* main.go has inserted a marker whose created_at was replaced by the
\* clock and whose updated_at, of year 2020, was kept
C10_Witness ==
    /\ variant = WholeRun
    /\ pc = "fetch"
    /\ \E i \in DOMAIN source["scene_markers"] :
          /\ TsOutOfRange(source["scene_markers"][i].created_at)
          /\ TsInRange(source["scene_markers"][i].updated_at)
    /\ \E j \in DOMAIN stmts :
          /\ stmts[j].kind = "insert" /\ stmts[j].table = "scene_markers" /\ stmts[j].ok
          /\ TimeBefore(start, stmts[j].rows[1].created_at.v)
          /\ stmts[j].rows[1].updated_at.v.year = 2020

----------------------------------------------------------------------------
InInt32(v) == ~WideLess(v, MinInt32) /\ ~WideLess(MaxInt32, v)

SpeedClamped(in, out) ==
    IF in.type = "int64"
    THEN /\ out.type = "int32"
         /\ InInt32(out.v)
         /\ InInt32(in.v) => out.v = in.v
         /\ WideLess(MaxInt32, in.v) => out.v = MaxInt32
         /\ WideLess(in.v, MinInt32) => out.v = MinInt32
         /\ clampInt64ToInt32(out.v) = out.v
    ELSE out = in

(* C11: the batch of an insert into video_files has the rows of the batch  *)
(* fetched, and an interactive_speed that was a 64-bit integer v is        *)
(* written as a 32-bit integer: v itself when MinInt32 <= v <= MaxInt32,   *)
(* MaxInt32 when v is greater, MinInt32 when v is smaller; the written     *)
(* value lies in the 32-bit range and clamping it again changes nothing.   *)
C11_ClampToInt32 ==
    \A j \in Recent :
        stmts[j].kind = "insert" /\ stmts[j].table = "video_files" =>
            LET f == FetchedFor(j)
                w == stmts[j].rows
            IN /\ Len(w) = Len(f)
               /\ \A i \in DOMAIN f :
                     /\ w[i].id = f[i].id
                     /\ SpeedClamped(f[i].interactive_speed, w[i].interactive_speed)

\* a speed of MaxInt32 + 1 was fetched and MaxInt32 was written
C11_Witness ==
    /\ pc = "fetch"
    /\ source["video_files"] # <<>>
    /\ source["video_files"][1].interactive_speed = Int64(Wide(32768, 0))
    /\ \E j \in DOMAIN stmts :
          /\ stmts[j].kind = "insert" /\ stmts[j].table = "video_files" /\ stmts[j].ok
          /\ stmts[j].rows[1].interactive_speed = Int32(MaxInt32)

----------------------------------------------------------------------------
\* the destination transactions begun and neither committed nor rolled back
OpenDestTxns == {k \in DOMAIN dtxns : dtxns[k].status = "open"}

(* C12: at most one transaction is open on the destination and at most one *)
(* on the source.  part_000 begins a source transaction for every fetch    *)
(* and finishes none of them: they pile up until sourceDB.Close().         *)
C12_SingleOwnerSessions ==
    /\ Cardinality(OpenDestTxns) <= 1
    /\ srcTxns <= 1

----------------------------------------------------------------------------
\* the foreign keys the claim names, as <<dependent, referenced>>
ForeignKeys ==
    {<<"galleries_tags", "tags">>, <<"galleries_tags", "galleries">>,
     <<"performers_scenes", "performers">>, <<"performers_scenes", "scenes">>,
     <<"files_fingerprints", "files">>,
     <<"scene_markers_tags", "scene_markers">>, <<"scene_markers_tags", "tags">>}

(* C13: when a batch of a table that holds a foreign key is inserted, the  *)
(* referenced table has been fetched to its empty page.  The list of       *)
(* migrate is alphabetical: galleries_tags, performers_scenes and          *)
(* scene_markers_tags come before tags and scenes.                         *)
C13_ReferencedTablesLoadedFirst ==
    \A j \in Recent :
        stmts[j].kind = "insert" =>
            \A fk \in ForeignKeys :
                fk[1] = stmts[j].table => fk[2] \in EndedTablesBefore(j)

----------------------------------------------------------------------------
(* C14: with another process writing to files between two of its page      *)
(* fetches, the pages fetched, concatenated, are the contents files had at *)
(* one point in time.  main.go reads every page from the snapshot of stxn; *)
(* part_000 reads every page in a new transaction, from the file as it is  *)
(* then, and so skips a row or reads one twice.                            *)
C14_PagesAreOneSnapshot ==
    \A t \in (JustDone \cup DoneTables) \cap {"files"} :
        \E k \in DOMAIN versions : RowsOf(Selects(t)) = versions[k][t]

\* the same, of main.go alone
C14_WholeRunPagesAreOneSnapshot == variant = WholeRun => C14_PagesAreOneSnapshot

----------------------------------------------------------------------------
\* what migrate sends to the source: BeginTxx, the SELECT of a page, Close
ReadOnlyStatement(st) ==
    /\ st.kind \in {"begin", "select", "close"}
    /\ st.kind = "select" =>
          /\ st.table \in TableSet
          /\ st.offset % batchSize = 0
          /\ Len(st.rows) <= batchSize

(* C15: the source is opened with mode=ro; every statement sent to it is   *)
(* the SELECT of a page of a listed table, or the begin of the transaction *)
(* it runs in, or the close of the handle; and in every state of a run,    *)
(* finished, aborted or under way, the source holds what it held at the    *)
(* start.                                                                  *)
C15_SourceNeverModified ==
    /\ SourceMode = "ro"
    /\ \A i \in Recent : stmts[i].store = "src" => ReadOnlyStatement(stmts[i])
    /\ versions = <<source>>

\* a run has read three pages of a table and returned nil
C15_Witness ==
    /\ pc = "done"
    /\ Len(Selects("files")) >= 3
    /\ versions = <<source>>

----------------------------------------------------------------------------
PageStatement(st) == st.kind \in {"select", "insert"}

\* index of the last fetch or insert issued before statement j, 0 if none
PrevPage(j) ==
    LET before == {i \in 1..(j - 1) : PageStatement(stmts[i])}
    IN IF before = {} THEN 0 ELSE MaxOf(before)

TableIndex(t) == CHOOSE k \in 1..Len(Tables) : Tables[k] = t

\* a fetch at offset 0 opens its table: the table before it in the list
\* has just ended on an empty page; a fetch at a later offset follows the
\* insert of the batch one page before it
FetchInTurn(j) ==
    LET st == stmts[j]
        p == PrevPage(j)
    IN IF st.offset = 0
       THEN /\ \A i \in 1..(j - 1) : PageStatement(stmts[i]) => stmts[i].table # st.table
            /\ IF p = 0 THEN st.table = Tables[1]
               ELSE /\ stmts[p].kind = "select" /\ stmts[p].ok
                    /\ stmts[p].rows = <<>>
                    /\ TableIndex(st.table) = TableIndex(stmts[p].table) + 1
       ELSE /\ p > 0
            /\ stmts[p].kind = "insert" /\ stmts[p].ok
            /\ stmts[p].table = st.table
            /\ stmts[p].offset + batchSize = st.offset

\* an insert follows the fetch of its batch, which held rows, and writes
\* that batch as the rules of its table leave it
InsertInTurn(j) ==
    LET st == stmts[j]
        p == PrevPage(j)
    IN /\ p > 0
       /\ stmts[p].kind = "select" /\ stmts[p].ok
       /\ stmts[p].table = st.table
       /\ stmts[p].offset = st.offset
       /\ stmts[p].rows # <<>>
       /\ \E n \in 0..now.nsec :
             st.rows = Repair(variant, st.table, stmts[p].rows,
                              [now EXCEPT !.nsec = n]).rows

\* the diagnostics of one application of the rules to every batch that
\* reached them: the batches of the inserts issued, and the batch whose
\* statement could not be built
RECURSIVE DiagsOfInserts(_)
DiagsOfInserts(js) ==
    IF js = <<>> THEN <<>>
    ELSE Repair(variant, stmts[Head(js)].table, FetchedFor(Head(js)), now).diags
         \o DiagsOfInserts(Tail(js))

DiagsOfRules ==
    DiagsOfInserts(AscSeq({j \in DOMAIN stmts : stmts[j].kind = "insert"}))
    \o (IF pc = "failed" /\ err = "failed tosql"
        THEN Repair(variant, Tables[ti], rowsSlice, now).diags ELSE <<>>)

(* C16: the offset is a multiple of batchSize.  A table is opened by a     *)
(* fetch at offset 0 once the table before it has ended on an empty page;  *)
(* a fetch at a later offset follows the insert of the batch exactly       *)
(* batchSize before it, whatever the rules dropped; an insert follows the  *)
(* fetch of its own batch, which held rows, and writes what the rules make *)
(* of it; a table whose loop has ended was fetched to an empty page; and   *)
(* the rules have logged once for every batch that reached them.           *)
C16_PerTableStateMachine ==
    /\ offset % batchSize = 0
    /\ \A j \in Recent :
          /\ PageStatement(stmts[j]) => stmts[j].offset % batchSize = 0
          /\ stmts[j].kind = "select" => FetchInTurn(j)
          /\ stmts[j].kind = "insert" => InsertInTurn(j)
    /\ DoneTables \subseteq EndedTablesBefore(Len(stmts) + 1)
    /\ diag = DiagsOfRules

\* main.go has paged through three rows of saved_filters at offsets 0, 2
\* and 4 although the rule dropped a row of the first batch
C16_Witness ==
    /\ variant = WholeRun
    /\ pc = "done"
    /\ Len(source["saved_filters"]) = 3
    /\ \E d \in DOMAIN diag : diag[d].rule = "json" /\ diag[d].id = 1
    /\ Len(Selects("saved_filters")) = 3
    /\ Selects("saved_filters")[3].offset = 2 * batchSize

----------------------------------------------------------------------------
\* indices of the statements of one kind that were executed
Executed(kind) == {i \in DOMAIN stmts : stmts[i].kind = kind /\ stmts[i].ok}

\* every insert and every sequence reset runs in the one destination
\* transaction, begun before the first fetch
OneDestTransaction ==
    /\ Len(dtxns) <= 1
    /\ \A j \in Recent :
          stmts[j].kind \in {"select", "insert", "setval"} =>
              /\ stmts[j].store = "dst" => stmts[j].txn = 1
              /\ \E i \in 1..(j - 1) :
                    /\ stmts[i].kind = "begin" /\ stmts[i].store = "dst"
                    /\ stmts[i].txn = 1 /\ stmts[i].ok
                    /\ \A h \in 1..(i - 1) : ~PageStatement(stmts[h])

\* it is committed once, after the last sequence reset, and a run that
\* goes on after the commit has committed it
CommittedOnceAtTheEnd ==
    /\ Cardinality(Executed("commit")) <= 1
    /\ \A c \in Executed("commit") :
          /\ Cardinality(Executed("setval")) = Len(SeqTables)
          /\ \A i \in Executed("setval") \cup Executed("insert") : i < c
    /\ (dtxns # <<>> /\ dtxns[1].status = "committed") <=> Executed("commit") # {}
    /\ pc \in {"close_source", "close_dest", "done"} => Executed("commit") # {}

\* migrate has returned an error and the transaction is not committed
FailedBeforeCommit == pc = "failed" /\ Executed("commit") = {}

NoRowCommitted == \A t \in TableSet : Committed(t) = <<>>

(* C17, as claimed: in main.go every insert and sequence reset runs in the *)
(* one destination transaction, which is committed once, after the last    *)
(* reset; and when migrate returns an error before that commit, no row is  *)
(* committed and every sequence the run has reset stands where it stood    *)
(* before the run, at 1.  PostgreSQL does not undo setval when a           *)
(* transaction is rolled back: the sequences reset before the error keep   *)
(* their new value.                                                        *)
C17_AllOrNothing ==
    variant = WholeRun =>
        /\ OneDestTransaction
        /\ CommittedOnceAtTheEnd
        /\ FailedBeforeCommit =>
              /\ NoRowCommitted
              /\ \A i \in Executed("setval") : destSeq[stmts[i].table] = 1

(* C17, amended: as claimed, but when migrate returns an error before the  *)
(* commit it is only the rows that are not committed; a sequence has       *)
(* changed only if its reset was executed or a row was inserted without a  *)
(* value for id, and those changes stay.                                   *)
C17_RowsAllOrNothing ==
    variant = WholeRun =>
        /\ OneDestTransaction
        /\ CommittedOnceAtTheEnd
        /\ FailedBeforeCommit =>
              /\ NoRowCommitted
              /\ \A t \in SeqTableSet :
                    destSeq[t] # 1 =>
                        \E i \in Executed("setval") \cup Executed("insert") :
                            /\ stmts[i].table = t
                            /\ stmts[i].kind = "insert" => stmts[i].rows = <<>>

\* main.go has inserted the rows of files and reset every sequence, and
\* the commit fails: no row is committed, the sequence of files stands at 4
C17_Witness ==
    /\ variant = WholeRun
    /\ pc = "failed"
    /\ err = "final commit"
    /\ Len(WrittenIn(dtxns, "files")) = 3
    /\ NoRowCommitted
    /\ destSeq["files"] = 4

----------------------------------------------------------------------------
Terminated == pc \in {"done", "failed"}

TablesOf(ss) == [i \in 1..Len(ss) |-> ss[i].table]

\* the run migrated every table once, in list order, each to its first
\* empty page, then reset the sequences, and no statement failed
RunComplete ==
    /\ err = "nil"
    /\ \A i \in DOMAIN stmts : stmts[i].ok
    /\ TablesOf(SelectSeq(stmts, LAMBDA st : st.kind = "select" /\ st.rows = <<>>))
          = Tables
    /\ \A t \in TableSet : Selects(t)[Len(Selects(t))].rows = <<>>
    /\ \A i \in Executed("select") : \A j \in Executed("select") :
          i < j => TableIndex(stmts[i].table) <= TableIndex(stmts[j].table)
    /\ TablesOf(SelectSeq(stmts, LAMBDA st : st.kind = "setval")) = SeqTables
    /\ \A i \in Executed("select") : \A j \in Executed("setval") : i < j

\* migrate has returned the first error: nothing failed before it
ReturnedFirstError ==
    /\ err # "nil"
    /\ \A i \in 1..(Len(stmts) - 1) : stmts[i].ok

(* C18: on a source that does not change, every run of migrate ends, with  *)
(* return nil or with an error.  A run that returns nil has fetched every  *)
(* table of the list once, in list order, each up to its first empty page, *)
(* and has then reset the sequences; a run that returns an error returns   *)
(* the first one; and no page of a table is ever fetched twice.            *)
C18_Terminates ==
    /\ <>Terminated
    /\ [](pc = "done" => RunComplete)
    /\ [](pc = "failed" => ReturnedFirstError)
    /\ []NothingTwice

\* a run over a table of three pages has returned nil
C18_Witness ==
    /\ pc = "done"
    /\ err = "nil"
    /\ \E t \in TableSet : Len(Selects(t)) = 4
    /\ Cardinality(Executed("setval")) = Len(SeqTables)

----------------------------------------------------------------------------
(* C19: every insert statement carries at least one row, and no row is     *)
(* written that was not read from the source.  In main.go a saved_filters  *)
(* batch that the JSON rule has emptied is inserted all the same, as       *)
(* INSERT ... DEFAULT VALUES, which writes a row of its own.               *)
C19_NoEmptyInsert ==
    /\ \A j \in Recent : stmts[j].kind = "insert" => stmts[j].rows # <<>>
    /\ Ids(WrittenIn(dtxns, "saved_filters")) \subseteq Ids(source["saved_filters"])

----------------------------------------------------------------------------
(* C20: every table that a rule of the insert block is keyed on is in the  *)
(* list of migrate, so that a run of main.go that returns nil has fetched  *)
(* it and has inserted its rows.  performer_custom_fields is not in the    *)
(* list: its rows are never read and its rule never runs.                  *)
C20_EveryRepairRuleReachable ==
    variant = WholeRun /\ pc = "done" =>
        \A t \in RuleTables :
            /\ t \in TableSet
            /\ Selects(t) # <<>>
            /\ source[t] # <<>> => Inserts(t) # <<>>

====
